---- MODULE Spec2Model ----
(***************************************************************************)
(* Model of the Quadra translator scripts:                                 *)
(*   translator.py     GeminiTranslator (detection, translation, history)  *)
(*   app.py            the Streamlit front-end, one script run per         *)
(*                     interaction                                         *)
(*   pdf_processor.py  AdvancedDocumentTranslator: extract_text,           *)
(*                     translate_text, replace_document_content,           *)
(*                     translate_document                                  *)
(*   image.py          HandwritingTranslator                               *)
(*   video.py          video_to_translate                                  *)
(*   speech.py         RealTimeVoiceTranslator: the record-and-translate   *)
(*                     loop, speech_to_text, translate_text                *)
(* Every external library or remote service (langdetect, the generation    *)
(* API, googletrans, OCR, speech recognition, moviepy, gTTS) is an input   *)
(* whose outcome is drawn nondeterministically: a value, or a raised       *)
(* exception.                                                              *)
(***************************************************************************)
EXTENDS Integers, Sequences, FiniteSets, TLC

(***************************************************************************)
(* Bounds of the exploration.                                              *)
(***************************************************************************)
\* number of whole chunks an input of translate_text may exceed
MaxChunks == 2
\* add_to_history calls made on one GeminiTranslator object
MaxAdds == 2
\* script runs (interactions) of one front-end session
MaxReruns == 1

(***************************************************************************)
(* Texts.  A text is a sequence of characters.  None is Python's None; it  *)
(* is kept distinct from every text, the empty one included.               *)
(***************************************************************************)
Whitespace == {" ", "\n"}
None == <<"None">>
Raise == <<"Raise">>

\* the texts exercised: empty, whitespace only, plain, padded
Texts == {<<>>, <<" ">>, <<"a">>, <<" ", "a">>}

\* Python truthiness of an optional string: None and "" are falsy
Truthy(x) == x # None /\ x # <<>>

\* str.strip(): leading and trailing whitespace removed
RECURSIVE lstrip(_)
lstrip(s) == IF s # <<>> /\ Head(s) \in Whitespace THEN lstrip(Tail(s)) ELSE s

RECURSIVE rstrip(_)
rstrip(s) ==
    IF s # <<>> /\ s[Len(s)] \in Whitespace THEN rstrip(SubSeq(s, 1, Len(s) - 1)) ELSE s

strip(s) == rstrip(lstrip(s))

\* sep.join(parts)
RECURSIVE join(_, _)
join(sep, parts) ==
    IF parts = <<>> THEN <<>>
    ELSE IF Len(parts) = 1 THEN parts[1]
    ELSE parts[1] \o sep \o join(sep, Tail(parts))

(***************************************************************************)
(* translator.py: LANGUAGES, LANGUAGE_CODES.                               *)
(***************************************************************************)
LanguageNames ==
    {"English", "Spanish", "French", "German", "Italian", "Portuguese",
     "Chinese", "Japanese", "Russian", "Hindi", "Arabic", "Tamil"}

LANGUAGES ==
    [n \in LanguageNames |->
        CASE n = "English" -> "en" [] n = "Spanish" -> "es" [] n = "French" -> "fr"
          [] n = "German" -> "de" [] n = "Italian" -> "it" [] n = "Portuguese" -> "pt"
          [] n = "Chinese" -> "zh" [] n = "Japanese" -> "ja" [] n = "Russian" -> "ru"
          [] n = "Hindi" -> "hi" [] n = "Arabic" -> "ar" [] n = "Tamil" -> "ta"]

LanguageValues == {LANGUAGES[n] : n \in LanguageNames}

\* LANGUAGE_CODES.get(code, "Unknown")
LANGUAGE_CODES_get(code) ==
    IF code \in LanguageValues
    THEN CHOOSE n \in LanguageNames : LANGUAGES[n] = code
    ELSE "Unknown"

\* what langdetect.detect may do: answer a supported code, answer a code
\* outside LANGUAGES ("zh-cn", "ko"), or raise LangDetectException
DetectorOutcomes == {"en", "es", "zh-cn", "ko", "raise"}

\* the target languages exercised
Selectable == {"English", "Spanish", "Tamil"}


(***************************************************************************)
(* State.                                                                  *)
(***************************************************************************)
VARIABLES
    prog,       \* which script runs: "translator", "app", "pdf", "image", "video", "speech"
    pc,         \* position of the front-end script within one run
    call,       \* the operation performed last, with its inputs
    result,     \* what that operation returned
    raised,     \* the step whose exception escaped the operation, or "none"
    apiCalls,   \* requests the operation sent to the remote translation service, in order
    files,      \* temporary files present on disk
    history,    \* GeminiTranslator.history: chat name -> sequence of records
    added,      \* every add_to_history call made on the object, in call order
    reruns,     \* script runs started in this session
    messages,   \* st.session_state["messages"]
    source_text,
    uploaded_file,
    detected_source_lang,
    target_language,
    translated_text,
    stages,     \* pipeline stages the current script run has invoked
    shown       \* what the live-translation block of the current run displays

vars ==
    <<prog, pc, call, result, raised, apiCalls, files, history, added, reruns, messages,
      source_text, uploaded_file, detected_source_lang,
      target_language, translated_text, stages, shown>>

objectVars == <<history, added>>
appVars ==
    <<pc, reruns, messages, source_text, uploaded_file, detected_source_lang,
      target_language, translated_text, stages, shown>>

(***************************************************************************)
(* translator.py: class GeminiTranslator.                                  *)
(***************************************************************************)
\* the prompt of GeminiTranslator.translate
TranslateTemplate ==
    "Translate the following text to {target_language}. Only return the translated text without any additional commentary. Text: {text}"

TranslatePrompt(text, target_language_) ==
    [template |-> TranslateTemplate, target |-> target_language_, text |-> text]

\* f"Error translating text: {e}"
ErrorText == <<"Error translating text: ", "e">>

\* self.history = {}
EmptyHistory == [c \in {} |-> <<>>]

\* detect_language(text); detected is what langdetect.detect(text) did
detect_language_unchecked(detected) ==
    IF detected = "raise" THEN "en" ELSE detected

detect_language(detected) ==
    IF detected = "raise" THEN "en"
    ELSE IF detected \in LanguageValues THEN detected ELSE "en"

\* translate(text, target_language); response is what generate_content(prompt).text
\* did: a text, or Raise
translate(text, target_language_, response) ==
    [calls  |-> <<TranslatePrompt(text, target_language_)>>,
     ret    |-> IF response = Raise THEN ErrorText ELSE strip(response),
     raised |-> "none"]

HistoryRecord(original_text, source_language, target_language_, translated_text_) ==
    [original |-> original_text, source_language |-> source_language,
     target_language |-> target_language_, translation |-> translated_text_]

\* add_to_history, as a function of the store
add_to_history_overwrite(h, chat_name, rec) ==
    [c \in DOMAIN h \cup {chat_name} |-> IF c = chat_name THEN <<rec>> ELSE h[c]]

add_to_history_all_sessions(h, chat_name, rec) ==
    [c \in DOMAIN h \cup {chat_name} |-> Append(IF c \in DOMAIN h THEN h[c] ELSE <<>>, rec)]

add_to_history(h, chat_name, rec) ==
    [c \in DOMAIN h \cup {chat_name} |->
        IF c = chat_name
        THEN Append(IF chat_name \in DOMAIN h THEN h[chat_name] ELSE <<>>, rec)
        ELSE h[c]]

\* show_history(chat_name): self.history.get(chat_name, [])
show_history(h, chat_name) == IF chat_name \in DOMAIN h THEN h[chat_name] ELSE <<>>
\* the store after show_history(chat_name): dict.get inserts no key
history_after_show_history(h, chat_name) == h

\* the inputs exercised on the object
ChatNames == {"DefaultChat", "Other"}
ExercisedRecords ==
    {HistoryRecord(<<"a">>, "en", t, tr) : t \in {"es", "zh"}, tr \in {<<"a">>, ErrorText}}

\* the records added for one chat, in call order
RECURSIVE AddedFor(_, _)
AddedFor(log, chat_name) ==
    IF log = <<>> THEN <<>>
    ELSE IF Head(log).chat = chat_name
         THEN <<Head(log).rec>> \o AddedFor(Tail(log), chat_name)
         ELSE AddedFor(Tail(log), chat_name)

DetectLanguage ==
    /\ prog = "translator"
    /\ \E detected \in DetectorOutcomes :
        /\ call' = [op |-> "detect_language", detected |-> detected, failed |-> FALSE]
        /\ result' = detect_language(detected)
    /\ raised' = "none"
    /\ apiCalls' = <<>>
    /\ UNCHANGED <<prog, files, objectVars, appVars>>

Translate ==
    /\ prog = "translator"
    /\ \E text \in Texts, n \in Selectable, response \in Texts \cup {Raise} :
        LET r == translate(text, LANGUAGES[n], response) IN
        /\ call' = [op |-> "translate", text |-> text, target |-> LANGUAGES[n],
                    failed |-> (response = Raise)]
        /\ result' = r.ret
        /\ raised' = r.raised
        /\ apiCalls' = r.calls
    /\ UNCHANGED <<prog, files, objectVars, appVars>>

AddToHistory ==
    /\ prog = "translator"
    /\ Len(added) < MaxAdds
    /\ \E chat_name \in ChatNames, rec \in ExercisedRecords :
        /\ call' = [op |-> "add_to_history", chat |-> chat_name, failed |-> FALSE]
        /\ history' = add_to_history(history, chat_name, rec)
        /\ added' = Append(added, [chat |-> chat_name, rec |-> rec])
    /\ result' = None
    /\ raised' = "none"
    /\ apiCalls' = <<>>
    /\ UNCHANGED <<prog, files, appVars>>

ShowHistory ==
    /\ prog = "translator"
    /\ \E chat_name \in ChatNames :
        /\ call' = [op |-> "show_history", chat |-> chat_name, failed |-> FALSE]
        /\ result' = show_history(history, chat_name)
        /\ history' = history_after_show_history(history, chat_name)
    /\ raised' = "none"
    /\ apiCalls' = <<>>
    /\ UNCHANGED <<prog, files, added, appVars>>

(***************************************************************************)
(* pdf_processor.py: AdvancedDocumentTranslator.translate_text.            *)
(* A document text is known by its extent: the characters lo .. hi-1 of    *)
(* the extracted text.  The service's answer to a piece is the             *)
(* translation of that piece, or the empty string.  A returned string is   *)
(* a sequence of tokens: translated pieces and single spaces.              *)
(***************************************************************************)
\* if len(text) > 10000, and the chunk step
ChunkSize == 10000

Min(a, b) == IF a <= b THEN a ELSE b

DocText(n) == [lo |-> 0, hi |-> n]
len(text) == text.hi - text.lo
\* text[i : j]
Slice(text, i, j) == [lo |-> Min(text.lo + i, text.hi), hi |-> Min(text.lo + j, text.hi)]

\* range(0, n, step)
RECURSIVE range(_, _, _)
range(i, n, step) == IF i >= n THEN <<>> ELSE <<i>> \o range(i + step, n, step)

\* chunks = [text[i : i + 10000] for i in range(0, len(text), 10000)]
chunks_overlapping(text) ==
    LET starts == range(0, len(text), ChunkSize)
    IN  [k \in 1..Len(starts) |-> Slice(text, starts[k], starts[k] + ChunkSize + 1)]

chunks(text) ==
    LET starts == range(0, len(text), ChunkSize)
    IN  [k \in 1..Len(starts) |-> Slice(text, starts[k], starts[k] + ChunkSize)]

\* the two f-strings of translate_text
ChunkTemplate == "Translate this text chunk to {target_language}:\n\n{chunk}"
WholeTemplate ==
    "Translate the following text to {target_language}. Preserve original formatting:\n\n{text}"

ChunkPrompt(chunk, target_language_) ==
    [template |-> ChunkTemplate, target |-> target_language_, text |-> chunk]

WholePrompt(text, target_language_) ==
    [template |-> WholeTemplate, target |-> target_language_, text |-> text]

Space == [kind |-> "space", lo |-> 0, hi |-> 0]
\* translate_text returned None, which no string equals
NoResult == <<[kind |-> "None", lo |-> 0, hi |-> 0]>>
Translated(piece) == [kind |-> "translated", lo |-> piece.lo, hi |-> piece.hi]

\* what one generate_content call may do
ApiOutcomes == {"ok", "empty", "raise"}
\* response.text of a call that did not raise
ResponseText(piece, outcome) == IF outcome = "ok" THEN <<Translated(piece)>> ELSE <<>>

\* index of the first call that raises, or n + 1
RECURSIVE FirstRaise(_, _, _)
FirstRaise(outcomes, k, n) ==
    IF k > n THEN n + 1
    ELSE IF outcomes[k] = "raise" THEN k ELSE FirstRaise(outcomes, k + 1, n)

\* translate_text(text, target_language); outcomes[k] is what the k-th
\* generate_content call does, if it is made
translate_text_one_template(text, target_language_, outcomes) ==
    IF len(text) = 0
    THEN [calls |-> <<>>, ret |-> NoResult, raised |-> "none"]
    ELSE LET cs == IF len(text) > ChunkSize THEN chunks(text) ELSE <<text>>
             stop == FirstRaise(outcomes, 1, Len(cs))
         IN  [calls  |-> [k \in 1..Min(stop, Len(cs)) |-> ChunkPrompt(cs[k], target_language_)],
              ret    |-> IF stop <= Len(cs) THEN NoResult
                         ELSE join(<<Space>>, [k \in 1..Len(cs) |-> ResponseText(cs[k], outcomes[k])]),
              raised |-> "none"]

translate_text_keep_going(text, target_language_, outcomes) ==
    IF len(text) = 0
    THEN [calls |-> <<>>, ret |-> NoResult, raised |-> "none"]
    ELSE IF len(text) > ChunkSize
    THEN LET cs == chunks(text)
         IN  [calls  |-> [k \in 1..Len(cs) |-> ChunkPrompt(cs[k], target_language_)],
              ret    |-> join(<<Space>>, [k \in 1..Len(cs) |-> ResponseText(cs[k], outcomes[k])]),
              raised |-> "none"]
    ELSE [calls  |-> <<WholePrompt(text, target_language_)>>,
          ret    |-> IF outcomes[1] = "raise" THEN NoResult ELSE ResponseText(text, outcomes[1]),
          raised |-> "none"]

translate_text(text, target_language_, outcomes) ==
    IF len(text) = 0
    THEN [calls |-> <<>>, ret |-> NoResult, raised |-> "none"]
    ELSE IF len(text) > ChunkSize
    THEN LET cs == chunks(text)
             stop == FirstRaise(outcomes, 1, Len(cs))
         IN  [calls  |-> [k \in 1..Min(stop, Len(cs)) |-> ChunkPrompt(cs[k], target_language_)],
              ret    |-> IF stop <= Len(cs) THEN NoResult
                         ELSE join(<<Space>>, [k \in 1..Len(cs) |-> ResponseText(cs[k], outcomes[k])]),
              raised |-> "none"]
    ELSE [calls  |-> <<WholePrompt(text, target_language_)>>,
          ret    |-> IF outcomes[1] = "raise" THEN NoResult ELSE ResponseText(text, outcomes[1]),
          raised |-> "none"]

\* the input lengths exercised: around every multiple of the chunk size
TextLengths ==
    {n \in {k * ChunkSize + d : k \in 0..MaxChunks, d \in {-1, 0, 1}} : n >= 0}
\* calls an input of the longest length needs
MaxCalls == MaxChunks + 1

\* what one translate_text call leaves behind
TranslateTextRun(n, target, outcomes) ==
    LET r == translate_text(DocText(n), target, outcomes)
    IN  [call |-> [op |-> "translate_text", text |-> DocText(n), target |-> target,
                   failed |-> FirstRaise(outcomes, 1, Len(r.calls)) <= Len(r.calls),
                   outcomes |-> [k \in 1..Len(r.calls) |-> outcomes[k]]],
         result |-> r.ret,
         raised |-> r.raised,
         apiCalls |-> r.calls]

TranslateTextRuns ==
    {TranslateTextRun(n, target, outcomes) :
        n \in TextLengths, target \in {"Spanish"}, outcomes \in [1..MaxCalls -> ApiOutcomes]}

TranslateText ==
    /\ prog = "pdf"
    /\ \E run \in TranslateTextRuns :
        /\ call' = run.call
        /\ result' = run.result
        /\ raised' = run.raised
        /\ apiCalls' = run.apiCalls
    /\ UNCHANGED <<prog, files, objectVars, appVars>>

(***************************************************************************)
(* pdf_processor.py: extract_text and replace_document_content.            *)
(* A file path is the sequence of its pieces, an extension being one       *)
(* piece; no piece exercised contains another one as a substring.          *)
(***************************************************************************)
Extensions == {".pdf", ".PDF", ".docx", ".DOCX", ".txt", ".TXT", ".text", ".zip"}

\* str.lower(), on one piece
lower(piece) ==
    CASE piece = ".PDF" -> ".pdf" [] piece = ".DOCX" -> ".docx" [] piece = ".TXT" -> ".txt"
      [] OTHER -> piece

\* os.path.splitext(file_path)[1]
splitext(file_path) ==
    IF file_path # <<>> /\ file_path[Len(file_path)] \in Extensions
    THEN file_path[Len(file_path)] ELSE ""

\* str.replace(old, new): every occurrence of old, case-sensitively
RECURSIVE replace(_, _, _)
replace(s, old, new) ==
    IF s = <<>> THEN <<>>
    ELSE (IF Head(s) = old THEN new ELSE <<Head(s)>>) \o replace(Tail(s), old, new)

\* the paths exercised
Paths == {<<"a", e>> : e \in Extensions}

\* extract_text returned None
NoDocument == [type |-> "None"]

\* the PyPDF2 loop: text += page.extract_text() + "\n"
RECURSIVE PagesText(_)
PagesText(pages) ==
    IF pages = <<>> THEN <<>> ELSE Head(pages) \o <<"\n">> \o PagesText(Tail(pages))

\* lines 66-92, the PDF branch: primary is what extract_pdf_text did, fallback
\* what PyPDF2 did with the pages
extract_text_pdf_unstripped(primary, fallback) ==
    LET tried == IF primary = Raise THEN <<"extract_pdf_text", "PdfReader">>
                 ELSE <<"extract_pdf_text">>
        text == IF primary # Raise THEN primary
                ELSE IF fallback.raises THEN Raise ELSE PagesText(fallback.pages)
    IN  IF text = Raise
        THEN [ret |-> NoDocument, tried |-> tried,
              printed |-> <<"First PDF extraction method failed",
                            "Second PDF extraction method failed">>]
        ELSE IF text = <<>>
        THEN [ret |-> NoDocument, tried |-> tried,
              printed |-> <<"No text could be extracted from the PDF.">>]
        ELSE [ret |-> [text |-> text, type |-> "pdf"], tried |-> tried, printed |-> <<>>]

extract_text_pdf(primary, fallback) ==
    LET tried == IF primary = Raise THEN <<"extract_pdf_text", "PdfReader">>
                 ELSE <<"extract_pdf_text">>
        text == IF primary # Raise THEN primary
                ELSE IF fallback.raises THEN Raise ELSE PagesText(fallback.pages)
    IN  IF text = Raise
        THEN [ret |-> NoDocument, tried |-> tried,
              printed |-> <<"First PDF extraction method failed",
                            "Second PDF extraction method failed">>]
        ELSE IF text = <<>> \/ strip(text) = <<>>
        THEN [ret |-> NoDocument, tried |-> tried,
              printed |-> <<"No text could be extracted from the PDF.">>]
        ELSE [ret |-> [text |-> text, type |-> "pdf"], tried |-> tried, printed |-> <<>>]

\* a paragraph of a DOCX document as python-docx presents it: its text (a
\* line break inside the paragraph reads as "\n"), its alignment, its style
\* name and the fonts of its runs; "None" is an unset property
Run(font_name, font_size) == [font_name |-> font_name, font_size |-> font_size]
Paragraph(text, alignment, runs) ==
    [text |-> text, alignment |-> alignment, style |-> "Normal", runs |-> runs]

ParagraphsExercised ==
    {Paragraph(<<>>, "None", <<>>),
     Paragraph(<<"a">>, "CENTER", <<Run("Arial", "Pt(12)")>>),
     Paragraph(<<"a", "\n", "b">>, "None", <<Run("None", "None")>>)}

\* paragraph.runs[0].font.name if paragraph.runs else None
FontName(paragraph) == IF paragraph.runs # <<>> THEN paragraph.runs[1].font_name ELSE "None"
FontSize(paragraph) == IF paragraph.runs # <<>> THEN paragraph.runs[1].font_size ELSE "None"

\* the dict appended to paragraph_styles
StyleRecord(paragraph) ==
    [alignment |-> paragraph.alignment, style |-> paragraph.style,
     font_name |-> FontName(paragraph), font_size |-> FontSize(paragraph)]

\* the paragraphs the loop keeps: if paragraph.text
Kept(paragraphs) == SelectSeq(paragraphs, LAMBDA p : p.text # <<>>)

\* lines 95-137, the DOCX branch
extract_text_docx(document) ==
    IF document.raises
    THEN [ret |-> NoDocument, tried |-> <<>>, printed |-> <<"DOCX Extraction Error">>]
    ELSE LET kept == Kept(document.paragraphs) IN
         IF kept = <<>>
         THEN [ret |-> NoDocument, tried |-> <<>>,
               printed |-> <<"No text could be extracted from the DOCX.">>]
         ELSE [ret |-> [text |-> join(<<"\n">>, [i \in 1..Len(kept) |-> kept[i].text]),
                        type |-> "docx",
                        styles |-> [i \in 1..Len(kept) |-> StyleRecord(kept[i])]],
               tried |-> <<>>, printed |-> <<>>]

\* detect_encoding(file_path): result["encoding"] or "utf-8"
detect_encoding(detected) == IF detected = "None" THEN "utf-8" ELSE detected

\* lines 140-153, the TXT branch: read is what file.read() did
extract_text_txt(detected, read) ==
    IF read = Raise
    THEN [ret |-> NoDocument, tried |-> <<>>, printed |-> <<"Text File Extraction Error">>]
    ELSE IF read = <<>>
    THEN [ret |-> NoDocument, tried |-> <<>>,
          printed |-> <<"No text could be extracted from the text file.">>]
    ELSE [ret |-> [text |-> read, type |-> "txt", encoding |-> detect_encoding(detected)],
          tried |-> <<>>, printed |-> <<>>]

\* what the libraries may find in a file of the given path; the fallback
\* reader's behaviour is varied only where the primary extractor raises
PageTexts == {<<>>, <<"a">>}
DocumentContents(file_path) ==
    LET file_extension == lower(splitext(file_path)) IN
    IF file_extension = ".pdf"
    THEN {[primary |-> p, fallback |-> [raises |-> TRUE, pages |-> <<>>]] : p \in Texts}
         \cup {[primary |-> Raise, fallback |-> f] :
                 f \in {[raises |-> TRUE, pages |-> <<>>]}
                       \cup {[raises |-> FALSE, pages |-> ps] :
                               ps \in UNION {[1..n -> PageTexts] : n \in 0..2}}}
    ELSE IF file_extension = ".docx"
    THEN {[raises |-> TRUE, paragraphs |-> <<>>]}
         \cup {[raises |-> FALSE, paragraphs |-> ps] :
                 ps \in UNION {[1..n -> ParagraphsExercised] : n \in 0..2}}
    ELSE IF file_extension \in {".txt", ".text"}
    THEN {[detected |-> d, read |-> t] : d \in {"None", "ascii"}, t \in Texts \cup {Raise}}
    ELSE {[read |-> <<>>]}

\* extract_text(file_path): exists is os.path.exists(file_path)
extract_text(file_path, exists, content) ==
    IF ~exists
    THEN [ret |-> NoDocument, tried |-> <<>>, printed |-> <<"Error: File does not exist.">>]
    ELSE LET file_extension == lower(splitext(file_path)) IN
         IF file_extension = ".pdf" THEN extract_text_pdf(content.primary, content.fallback)
         ELSE IF file_extension = ".docx" THEN extract_text_docx(content)
         ELSE IF file_extension \in {".txt", ".text"}
         THEN extract_text_txt(content.detected, content.read)
         ELSE [ret |-> NoDocument, tried |-> <<>>, printed |-> <<"Unsupported file type">>]

\* what one extract_text call leaves behind
ExtractTextRun(file_path, exists, content) ==
    LET r == extract_text(file_path, exists, content)
    IN  [call |-> [op |-> "extract_text", file_path |-> file_path, exists |-> exists,
                   content |-> content, tried |-> r.tried, printed |-> r.printed,
                   failed |-> FALSE],
         result |-> r.ret]

ExtractTextRuns ==
    UNION {{ExtractTextRun(file_path, exists, content) :
              content \in DocumentContents(file_path)} :
           file_path \in Paths, exists \in BOOLEAN}

ExtractText ==
    /\ prog = "pdf"
    /\ \E run \in ExtractTextRuns :
        /\ call' = run.call
        /\ result' = run.result
    /\ raised' = "none"
    /\ apiCalls' = <<>>
    /\ UNCHANGED <<prog, files, objectVars, appVars>>

\* str.split(sep) for a one-character separator
RECURSIVE split(_, _)
split(s, sep) ==
    IF \A i \in 1..Len(s) : s[i] # sep THEN <<s>>
    ELSE LET i == CHOOSE j \in 1..Len(s) : s[j] = sep /\ \A k \in 1..(j - 1) : s[k] # sep
         IN  <<SubSeq(s, 1, i - 1)>> \o split(SubSeq(s, i + 1, Len(s)), sep)

\* doc.add_paragraph(text): one run holding the text, no run for an empty text
add_paragraph(text) ==
    [text |-> text, alignment |-> "None", style |-> "Normal",
     runs |-> IF text # <<>> THEN <<Run("None", "None")>> ELSE <<>>]

\* lines 232-241: the style record applied to the new paragraph
apply_style(para, style) ==
    [para EXCEPT
        !.alignment = IF style.alignment # "None" THEN style.alignment ELSE @,
        !.runs = IF @ # <<>>
                 THEN <<Run(IF style.font_name # "None" THEN style.font_name
                            ELSE @[1].font_name,
                            IF style.font_size # "None" THEN style.font_size
                            ELSE @[1].font_size)>>
                 ELSE @]

\* lines 221-241: the paragraphs added for the translated lines; a record
\* taken from the extraction is never an empty dict, so "if style" holds
\* exactly when i < len(styles)
rebuilt_paragraphs_unstyled(lines, styles) ==
    [i \in 1..Len(lines) |-> add_paragraph(lines[i])]

rebuilt_paragraphs(lines, styles) ==
    [i \in 1..Len(lines) |->
        IF i <= Len(styles) THEN apply_style(add_paragraph(lines[i]), styles[i])
        ELSE add_paragraph(lines[i])]

\* nothing was written
NoOutput == [output_file |-> <<>>, kind |-> "none"]

\* what the file system and the libraries may do during the replacement
ReplaceOutcomes == {"ok", "open_raises", "write_raises"}

\* replace_document_content(input_file, translated_text, original_metadata):
\* io is what opening and writing did.  For a text file open(output_file, "w")
\* truncates the file before write can raise; docx and reportlab write the
\* file in save, and TTFont raises before it when Arial.ttf is not found.
replace_document_content(input_file, translated_text_, original_metadata, io) ==
    IF original_metadata.type = "docx"
    THEN IF io # "ok" THEN [ret |-> FALSE, written |-> NoOutput]
         ELSE [ret |-> TRUE,
               written |-> [output_file |-> replace(input_file, ".docx", <<"_translated", ".docx">>),
                            kind |-> "docx",
                            paragraphs |-> rebuilt_paragraphs(split(translated_text_, "\n"),
                                                              original_metadata.styles)]]
    ELSE IF original_metadata.type = "txt"
    THEN IF io = "open_raises" THEN [ret |-> FALSE, written |-> NoOutput]
         ELSE [ret |-> io = "ok",
               written |-> [output_file |-> replace(input_file, ".txt", <<"_translated", ".txt">>),
                            kind |-> "txt",
                            encoding |-> original_metadata.encoding,
                            text |-> IF io = "ok" THEN translated_text_ ELSE <<>>]]
    ELSE IF original_metadata.type = "pdf"
    THEN IF io # "ok" THEN [ret |-> FALSE, written |-> NoOutput]
         ELSE [ret |-> TRUE,
               written |-> [output_file |-> replace(input_file, ".pdf", <<"_translated", ".pdf">>),
                            kind |-> "pdf",
                            lines |-> split(translated_text_, "\n")]]
    ELSE [ret |-> FALSE, written |-> NoOutput]

\* the translated texts exercised: one line, two lines, an empty line between two
TranslatedTexts == {<<"a">>, <<"a", "\n", "b">>, <<"a", "\n", "\n", "b">>}

\* the metadata extract_text can have returned for a file of this path
Metadata(file_path) ==
    {extract_text(file_path, TRUE, c).ret : c \in DocumentContents(file_path)} \ {NoDocument}

\* what one replace_document_content call leaves behind
ReplaceDocumentContentRun(input_file, translated_text_, original_metadata, io) ==
    LET r == replace_document_content(input_file, translated_text_, original_metadata, io)
    IN  [call |-> [op |-> "replace_document_content", input_file |-> input_file,
                   translated_text |-> translated_text_,
                   original_metadata |-> original_metadata, failed |-> FALSE],
         result |-> [ret |-> r.ret, written |-> r.written]]

ReplaceDocumentContentRuns ==
    UNION {UNION {{ReplaceDocumentContentRun(input_file, translated_text_,
                                             original_metadata, io) :
                     translated_text_ \in TranslatedTexts, io \in ReplaceOutcomes} :
                  original_metadata \in Metadata(input_file)} :
           input_file \in Paths}

ReplaceDocumentContent ==
    /\ prog = "pdf"
    /\ \E run \in ReplaceDocumentContentRuns :
        /\ call' = run.call
        /\ result' = run.result
    /\ raised' = "none"
    /\ apiCalls' = <<>>
    /\ UNCHANGED <<prog, files, objectVars, appVars>>

\* translate_document(input_file, target_language): exists and content are
\* what extract_text finds, outcomes what the generate_content calls do,
\* answer the characters of the translation when the service returned one,
\* io what opening and writing the output did.  The text handed to
\* translate_text has the extent of the extracted text.
translate_document_no_halt(input_file, target_language_, exists, content, outcomes, answer, io) ==
    LET e == extract_text(input_file, exists, content) IN
    IF e.ret.type = "None"
    THEN [ret |-> FALSE, stages |-> <<"extract">>, document_data |-> e.ret,
          translated |-> NoResult, calls |-> <<>>, written |-> NoOutput]
    ELSE LET t == translate_text(DocText(Len(e.ret.text)), target_language_, outcomes)
             r == replace_document_content(input_file, answer, e.ret, io)
         IN  [ret |-> r.ret, stages |-> <<"extract", "translate", "rebuild">>,
              document_data |-> e.ret, translated |-> t.ret, calls |-> t.calls,
              written |-> r.written]

translate_document(input_file, target_language_, exists, content, outcomes, answer, io) ==
    LET e == extract_text(input_file, exists, content) IN
    IF e.ret.type = "None"
    THEN [ret |-> FALSE, stages |-> <<"extract">>, document_data |-> e.ret,
          translated |-> NoResult, calls |-> <<>>, written |-> NoOutput]
    ELSE LET t == translate_text(DocText(Len(e.ret.text)), target_language_, outcomes)
             r == replace_document_content(input_file, answer, e.ret, io)
         IN  IF t.ret = NoResult \/ t.ret = <<>>
             THEN [ret |-> FALSE, stages |-> <<"extract", "translate">>,
                   document_data |-> e.ret, translated |-> t.ret, calls |-> t.calls,
                   written |-> NoOutput]
             ELSE [ret |-> r.ret, stages |-> <<"extract", "translate", "rebuild">>,
                   document_data |-> e.ret, translated |-> t.ret, calls |-> t.calls,
                   written |-> r.written]

\* generate_content calls a text of this extent needs when none fails
CallsNeeded(text) == IF len(text) > ChunkSize THEN Len(chunks(text)) ELSE 1

\* what one translate_document call leaves behind
TranslateDocumentRun(input_file, target, exists, content, outcomes, answer, io) ==
    LET r == translate_document(input_file, target, exists, content, outcomes, answer, io)
    IN  [call |-> [op |-> "translate_document", input_file |-> input_file,
                   stages |-> r.stages, document_data |-> r.document_data,
                   translated |-> r.translated,
                   failed |-> FirstRaise(outcomes, 1, Len(r.calls)) <= Len(r.calls)],
         result |-> [ret |-> r.ret, written |-> r.written],
         apiCalls |-> r.calls]

\* the calls exercised: every path, present or missing, with every content,
\* service outcome, answer and write outcome
TranslateDocumentRuns ==
    UNION {UNION {LET e == extract_text(input_file, exists, content)
                      text == IF e.ret.type = "None" THEN DocText(1)
                              ELSE DocText(Len(e.ret.text))
                  IN  {TranslateDocumentRun(input_file, "Spanish", exists, content,
                                            outcomes, answer, io) :
                         outcomes \in [1..CallsNeeded(text) -> ApiOutcomes],
                         answer \in TranslatedTexts, io \in ReplaceOutcomes} :
                  content \in DocumentContents(input_file)} :
           input_file \in Paths, exists \in BOOLEAN}

TranslateDocument ==
    /\ prog = "pdf"
    /\ \E run \in TranslateDocumentRuns :
        /\ call' = run.call
        /\ result' = run.result
        /\ apiCalls' = run.apiCalls
    /\ raised' = "none"
    /\ UNCHANGED <<prog, files, objectVars, appVars>>

(***************************************************************************)
(* googletrans, as image.py, video.py and speech.py call it.               *)
(***************************************************************************)
\* translator.translate(text, dest=...)
GoogleRequest(text, dest) ==
    [template |-> "googletrans", target |-> dest, text |-> text]

(***************************************************************************)
(* image.py: class HandwritingTranslator.                                  *)
(***************************************************************************)
ProcessedImage == "processed_handwriting.png"

\* where extract_handwriting may fail
HandwritingFailures == {"none", "preprocess", "readtext", "tesseract"}

\* extract_handwriting(image_path): failAt is the step that raises, the two
\* texts are what the OCR engines read
extract_handwriting(failAt, easyocr_text, tesseract_text) ==
    IF failAt = "preprocess"
    THEN [ret |-> <<>>, created |-> {}, removed |-> {}]
    ELSE IF failAt \in {"readtext", "tesseract"}
    THEN [ret |-> <<>>, created |-> {ProcessedImage}, removed |-> {}]
    ELSE [ret     |-> IF strip(easyocr_text) # <<>> THEN strip(easyocr_text)
                      ELSE strip(tesseract_text),
          created |-> {ProcessedImage}, removed |-> {ProcessedImage}]

\* HandwritingTranslator.translate_text(text, dest_lang): response is what
\* translator.translate(...).text did
image_translate_text(text, dest_lang, response) ==
    [calls  |-> <<GoogleRequest(text, dest_lang)>>,
     ret    |-> IF response = Raise THEN text
                ELSE IF Len(response) > 0 THEN response ELSE text,
     raised |-> "none"]

\* process_handwritten_image(image_path, dest_lang)
process_handwritten_image(failAt, easyocr_text, tesseract_text, dest_lang, response) ==
    LET e == extract_handwriting(failAt, easyocr_text, tesseract_text)
        t == image_translate_text(e.ret, dest_lang, response)
    IN  [ret     |-> [original_text |-> e.ret, translated_text |-> t.ret,
                      source_lang |-> "detected", target_lang |-> dest_lang],
         created |-> e.created, removed |-> e.removed,
         calls   |-> t.calls, raised |-> t.raised]

ProcessHandwrittenImage ==
    /\ prog = "image"
    /\ \E failAt \in HandwritingFailures, easyocr_text \in Texts, tesseract_text \in Texts,
          dest_lang \in {"fr"}, response \in Texts \cup {Raise} :
        LET r == process_handwritten_image(failAt, easyocr_text, tesseract_text,
                                           dest_lang, response) IN
        /\ call' = [op |-> "process_handwritten_image", failAt |-> failAt,
                    ocr |-> <<easyocr_text, tesseract_text>>,
                    created |-> r.created, failed |-> (response = Raise)]
        /\ result' = r.ret
        /\ raised' = r.raised
        /\ apiCalls' = r.calls
        /\ files' = (files \cup r.created) \ r.removed
    /\ UNCHANGED <<prog, objectVars, appVars>>

(***************************************************************************)
(* video.py: video_to_translate.                                           *)
(***************************************************************************)
\* the steps of video_to_translate, in order; each may raise
VideoSteps ==
    <<"open_video", "write_audiofile", "recognize", "translate", "tts_save",
      "open_audio", "write_videofile">>

StepIndex(step) == CHOOSE i \in 1..Len(VideoSteps) : VideoSteps[i] = step
\* step was completed when the run fails at failAt ("none": it never fails)
Completed(step, failAt) == failAt = "none" \/ StepIndex(step) < StepIndex(failAt)
Reached(step, failAt) == failAt = "none" \/ StepIndex(step) <= StepIndex(failAt)

\* lang_out_map.get(final_language, "en")
lang_out_map_get(final_language) ==
    CASE final_language = "English" -> "en" [] final_language = "Italian" -> "it"
      [] final_language = "Spanish" -> "es" [] final_language = "Russian" -> "ru"
      [] final_language = "German" -> "de" [] final_language = "Japanese" -> "ja"
      [] final_language = "Portuguese" -> "pt" [] final_language = "Tamil" -> "ta"
      [] final_language = "Kannada" -> "kn" [] final_language = "Telugu" -> "te"
      [] final_language = "Malayalam" -> "ml" [] final_language = "Hindi" -> "hi"
      [] OTHER -> "en"

\* video_to_translate(file_obj, initial_language, final_language): text is
\* the transcript, failAt the step that raises
video_to_translate(failAt, text, final_language) ==
    LET lang_out == lang_out_map_get(final_language)
    IN  [ret     |-> IF failAt = "none" THEN <<"video_translated_", lang_out, ".mp4">> ELSE None,
         created |-> (IF Completed("write_audiofile", failAt) THEN {"test.wav"} ELSE {})
                     \cup (IF Completed("tts_save", failAt) THEN {"audio.wav"} ELSE {}),
         removed |-> {},
         calls   |-> IF Reached("translate", failAt)
                     THEN <<GoogleRequest(text, lang_out)>> ELSE <<>>,
         raised  |-> failAt]

VideoToTranslate ==
    /\ prog = "video"
    /\ \E failAt \in {"none"} \cup {VideoSteps[i] : i \in 1..Len(VideoSteps)},
          text \in Texts, final_language \in {"Spanish", "Tamil", "Klingon"} :
        LET r == video_to_translate(failAt, text, final_language) IN
        /\ call' = [op |-> "video_to_translate", failAt |-> failAt,
                    created |-> r.created, failed |-> (failAt = "translate")]
        /\ result' = r.ret
        /\ raised' = r.raised
        /\ apiCalls' = r.calls
        /\ files' = (files \cup r.created) \ r.removed
    /\ UNCHANGED <<prog, objectVars, appVars>>

(***************************************************************************)
(* speech.py: RealTimeVoiceTranslator.translate_text.                      *)
(***************************************************************************)
speech_languages ==
    [n \in {"English", "French", "Spanish", "German", "Chinese", "Arabic", "Russian",
            "Tamil", "Hindi", "Telugu", "Kannada", "Malayalam"} |->
        CASE n = "English" -> "en" [] n = "French" -> "fr" [] n = "Spanish" -> "es"
          [] n = "German" -> "de" [] n = "Chinese" -> "zh-CN" [] n = "Arabic" -> "ar"
          [] n = "Russian" -> "ru" [] n = "Tamil" -> "ta" [] n = "Hindi" -> "hi"
          [] n = "Telugu" -> "te" [] n = "Kannada" -> "kn" [] n = "Malayalam" -> "ml"]

TranslationFailed == <<"Translation failed">>

\* RealTimeVoiceTranslator.translate_text(text, target_lang): self.languages[target_lang]
\* raises KeyError inside the try when the name is unknown
speech_translate_text(text, target_lang, response) ==
    IF target_lang \notin DOMAIN speech_languages
    THEN [calls |-> <<>>, ret |-> TranslationFailed, raised |-> "none"]
    ELSE [calls  |-> <<GoogleRequest(text, speech_languages[target_lang])>>,
          ret    |-> IF response = Raise THEN TranslationFailed ELSE response,
          raised |-> "none"]

SpeechTranslateText ==
    /\ prog = "speech"
    /\ \E text \in Texts, target_lang \in {"Tamil", "Chinese", "Klingon"},
          response \in Texts \cup {Raise} :
        LET r == speech_translate_text(text, target_lang, response) IN
        /\ call' = [op |-> "translate_text", text |-> text, target |-> target_lang,
                    failed |-> (response = Raise /\ r.calls # <<>>)]
        /\ result' = r.ret
        /\ raised' = r.raised
        /\ apiCalls' = r.calls
    /\ UNCHANGED <<prog, files, objectVars, appVars>>

\* what recognize_google may do with a recording: raise one of the
\* recogniser's errors or another exception, or return a transcript
HeardOutcomes ==
    {<<"UnknownValueError">>, <<"RequestError">>, <<"Exception">>, <<>>, <<"a">>}
RecognitionErrors == {<<"UnknownValueError">>, <<"RequestError">>}

\* speech_to_text(audio_data, source_lang): self.languages[source_lang] raises
\* KeyError inside the try when the name is unknown
speech_to_text(source_lang, heard) ==
    IF source_lang \notin DOMAIN speech_languages THEN <<>>
    ELSE IF heard \in RecognitionErrors \cup {<<"Exception">>} THEN <<>>
    ELSE heard

\* the steps of one pass of the while loop of record_and_translate
LoopSteps ==
    <<"record_audio", "speech_to_text", "translate_text", "text_to_speech_original",
      "text_to_speech_translated">>

\* one pass of the while loop of record_and_translate(source_lang, target_lang):
\* recorded is what record_audio did, heard what the recogniser did, response
\* what the translation service did; interruptAt is the step during which
\* Ctrl+C arrives, if the pass gets there.  text_to_speech catches its own
\* errors.
record_and_translate_no_continue(source_lang, target_lang, recorded, heard, response, interruptAt) ==
    IF interruptAt = "record_audio"
    THEN [transcript |-> None, calls |-> <<>>, ret |-> None, spoken |-> <<>>,
          next |-> "stopped"]
    ELSE IF recorded = "raise"
    THEN [transcript |-> None, calls |-> <<>>, ret |-> None, spoken |-> <<>>,
          next |-> "record"]
    ELSE IF interruptAt = "speech_to_text"
    THEN [transcript |-> None, calls |-> <<>>, ret |-> None, spoken |-> <<>>,
          next |-> "stopped"]
    ELSE LET original_text == speech_to_text(source_lang, heard)
             t == speech_translate_text(original_text, target_lang, response)
         IN  IF interruptAt = "translate_text"
             THEN [transcript |-> original_text, calls |-> t.calls, ret |-> None,
                   spoken |-> <<>>, next |-> "stopped"]
             ELSE IF interruptAt = "text_to_speech_original"
             THEN [transcript |-> original_text, calls |-> t.calls, ret |-> t.ret,
                   spoken |-> <<original_text>>, next |-> "stopped"]
             ELSE [transcript |-> original_text, calls |-> t.calls, ret |-> t.ret,
                   spoken |-> <<original_text, t.ret>>,
                   next |-> IF interruptAt = "text_to_speech_translated" THEN "stopped"
                            ELSE "record"]

record_and_translate(source_lang, target_lang, recorded, heard, response, interruptAt) ==
    IF interruptAt = "record_audio"
    THEN [transcript |-> None, calls |-> <<>>, ret |-> None, spoken |-> <<>>,
          next |-> "stopped"]
    ELSE IF recorded = "raise"
    THEN [transcript |-> None, calls |-> <<>>, ret |-> None, spoken |-> <<>>,
          next |-> "record"]
    ELSE IF interruptAt = "speech_to_text"
    THEN [transcript |-> None, calls |-> <<>>, ret |-> None, spoken |-> <<>>,
          next |-> "stopped"]
    ELSE LET original_text == speech_to_text(source_lang, heard)
             t == speech_translate_text(original_text, target_lang, response)
         IN  IF original_text = <<>>
             THEN [transcript |-> original_text, calls |-> <<>>, ret |-> None,
                   spoken |-> <<>>, next |-> "record"]
             ELSE IF interruptAt = "translate_text"
             THEN [transcript |-> original_text, calls |-> t.calls, ret |-> None,
                   spoken |-> <<>>, next |-> "stopped"]
             ELSE IF interruptAt = "text_to_speech_original"
             THEN [transcript |-> original_text, calls |-> t.calls, ret |-> t.ret,
                   spoken |-> <<original_text>>, next |-> "stopped"]
             ELSE [transcript |-> original_text, calls |-> t.calls, ret |-> t.ret,
                   spoken |-> <<original_text, t.ret>>,
                   next |-> IF interruptAt = "text_to_speech_translated" THEN "stopped"
                            ELSE "record"]

\* one pass of the loop; pc is "stopped" once the loop was left
RecordAndTranslate ==
    /\ prog = "speech"
    /\ pc # "stopped"
    /\ \E source_lang \in {"English", "Klingon"}, target_lang \in {"Tamil"},
          recorded \in {"ok", "raise"}, heard \in HeardOutcomes,
          response \in {<<"a">>, Raise},
          interruptAt \in {"none"} \cup {LoopSteps[i] : i \in 1..Len(LoopSteps)} :
        LET r == record_and_translate(source_lang, target_lang, recorded, heard, response,
                                      interruptAt) IN
        /\ call' = [op |-> "record_and_translate", source_lang |-> source_lang,
                    heard |-> heard, transcript |-> r.transcript, spoken |-> r.spoken,
                    failed |-> (response = Raise /\ r.calls # <<>> /\ r.ret # None)]
        /\ result' = r.ret
        /\ apiCalls' = r.calls
        /\ pc' = r.next
    /\ raised' = "none"
    /\ UNCHANGED <<prog, files, objectVars, reruns, messages, source_text, uploaded_file,
                   detected_source_lang, target_language, translated_text, stages, shown>>

(***************************************************************************)
(* app.py: the Streamlit front-end.  Streamlit runs the whole script once  *)
(* per interaction; st.session_state alone survives from run to run.       *)
(***************************************************************************)
\* uploaded_file.type, split at the slash
Mime(major, minor) == [major |-> major, minor |-> minor]
PdfType == Mime("application", "pdf")
DocxType == Mime("application", "vnd.openxmlformats-officedocument.wordprocessingml.document")
TxtType == Mime("text", "plain")
\* uploaded_file.type.startswith(prefix), for a prefix without a slash
startswith(type, prefix) == type.major = prefix

FileTypes ==
    {PdfType, DocxType, TxtType, Mime("image", "png"), Mime("video", "mp4"),
     Mime("audio", "mpeg"), Mime("application", "zip")}

\* uploaded_file is None
NoFile == [type |-> Mime("", ""), name |-> <<>>]
UploadedFile(type) == [type |-> type, name |-> <<"upload.", type.minor>>]

TempVideo == "tmp.mp4"
TempAudio == "tmp.wav"

Error(message) == [kind |-> "error", value |-> <<message>>]
Show(kind, value) == [kind |-> kind, value |-> value]

\* recognize_speech_from_microphone(); heard is what recognize_google did
SpeechOutcomes == {<<"UnknownValueError">>, <<"RequestError">>, <<"a">>}
recognize_speech_from_microphone(heard) ==
    IF heard = <<"UnknownValueError">>
    THEN [ret |-> None,
          shown |-> <<Error("Google Speech Recognition could not understand the audio.")>>]
    ELSE IF heard = <<"RequestError">>
    THEN [ret |-> None,
          shown |-> <<Error("Could not request results from Google Speech Recognition service.")>>]
    ELSE [ret |-> heard, shown |-> <<Show("success", heard)>>]

\* extract_text_from_image(image_file); ocr is what pytesseract.image_to_string did
extract_text_from_image(ocr) ==
    IF ocr = Raise
    THEN [ret |-> None, raised |-> FALSE, created |-> {}, removed |-> {},
          shown |-> <<Error("Error extracting text from image")>>]
    ELSE IF strip(ocr) # <<>>
    THEN [ret |-> ocr, raised |-> FALSE, created |-> {}, removed |-> {}, shown |-> <<>>]
    ELSE [ret |-> None, raised |-> FALSE, created |-> {}, removed |-> {},
          shown |-> <<Error("No text found in the image.")>>]

\* where extract_audio_and_transcribe may fail
TranscribeFailures == {"none", "write_video", "open_clip", "write_audiofile", "recognize"}

\* extract_audio_and_transcribe(video_file): failAt is the step that raises,
\* text the transcript
extract_audio_and_transcribe(failAt, text) ==
    LET created == CASE failAt = "write_video" -> {}
                     [] failAt \in {"open_clip", "write_audiofile"} -> {TempVideo}
                     [] OTHER -> {TempVideo, TempAudio}
    IN  IF failAt = "none"
        THEN [ret |-> text, raised |-> FALSE, created |-> created,
              removed |-> {TempVideo, TempAudio}, shown |-> <<>>]
        ELSE [ret |-> None, raised |-> FALSE, created |-> created, removed |-> {},
              shown |-> <<>>]

\* what the libraries may do with an upload of the given type
ParagraphTexts == {<<>>, <<"a">>}
FileContents(type) ==
    IF type = DocxType
    THEN {Raise} \cup {<<"paragraphs">> \o ps :
                        ps \in UNION {[1..n -> ParagraphTexts] : n \in 0..2}}
    ELSE IF startswith(type, "video")
    THEN {<<f>> \o t : f \in TranscribeFailures \ {"none"}, t \in {<<>>}}
         \cup {<<"none">> \o t : t \in Texts}
    ELSE IF type \in {PdfType, TxtType} \/ startswith(type, "image")
    THEN {Raise} \cup Texts
    ELSE {<<>>}

NonEmpty(ps) == SelectSeq(ps, LAMBDA t : t # <<>>)

\* extract_text_from_file(uploaded_file)
extract_text_from_file(type, content) ==
    IF type = PdfType \/ type = TxtType
    THEN IF content = Raise
         THEN [ret |-> None, raised |-> TRUE, created |-> {}, removed |-> {}, shown |-> <<>>]
         ELSE [ret |-> content, raised |-> FALSE, created |-> {}, removed |-> {},
               shown |-> <<>>]
    ELSE IF type = DocxType
    THEN IF content = Raise
         THEN [ret |-> None, raised |-> TRUE, created |-> {}, removed |-> {}, shown |-> <<>>]
         ELSE [ret |-> join(<<"\n">>, NonEmpty([i \in 1..(Len(content) - 1) |-> content[i + 1]])),
               raised |-> FALSE, created |-> {}, removed |-> {}, shown |-> <<>>]
    ELSE IF startswith(type, "image")
    THEN extract_text_from_image(content)
    ELSE IF startswith(type, "video")
    THEN extract_audio_and_transcribe(Head(content), Tail(content))
    ELSE [ret |-> None, raised |-> FALSE, created |-> {}, removed |-> {},
          shown |-> <<Error("Unsupported file type")>>]

NoBuffer == [kind |-> "none", data |-> <<>>]

\* create_translated_file(original_file, translated_text, original_type).
\* app.py imports neither canvas, letter, pdfmetrics nor TTFont, so the PDF
\* branch raises NameError at its first use of canvas.
create_translated_file(translated_text_, original_type) ==
    IF original_type = PdfType
    THEN [ret |-> NoBuffer, raised |-> TRUE, shown |-> <<>>]
    ELSE IF original_type = DocxType
    THEN [ret |-> [kind |-> "docx", data |-> split(translated_text_, "\n")],
          raised |-> FALSE, shown |-> <<>>]
    ELSE IF original_type = TxtType
    THEN [ret |-> [kind |-> "utf-8", data |-> <<translated_text_>>],
          raised |-> FALSE, shown |-> <<>>]
    ELSE [ret |-> NoBuffer, raised |-> FALSE,
          shown |-> <<Error("Unsupported file type for download")>>]

\* the text-area contents exercised
TypedTexts == {<<>>, <<" ">>, <<"a">>}

NoDownload == [file_name |-> <<>>, mime |-> Mime("", ""), data |-> NoBuffer]

\* lines 16-23 and 173-191: session state, a new GeminiTranslator, the text
\* area and the speech button
RunWidgets ==
    /\ prog = "app"
    /\ pc = "idle"
    /\ reruns < MaxReruns
    /\ reruns' = reruns + 1
    /\ history' = EmptyHistory
    /\ added' = <<>>
    /\ \E typed \in TypedTexts, speech \in {<<"NotPressed">>} \cup SpeechOutcomes :
        LET r == recognize_speech_from_microphone(speech) IN
        /\ source_text' = IF speech # <<"NotPressed">> /\ Truthy(r.ret) THEN r.ret ELSE typed
        /\ call' = [op |-> "script_run", extractor |-> "none", signal |-> <<>>,
                    ret |-> None,
                    asr |-> IF speech \in {<<"UnknownValueError">>, <<"RequestError">>}
                            THEN {"microphone"} ELSE {},
                    failed |-> FALSE]
    /\ shown' = <<>>
    /\ result' = NoDownload
    /\ raised' = "none"
    /\ apiCalls' = <<>>
    /\ stages' = {}
    /\ uploaded_file' = NoFile
    /\ translated_text' = None
    /\ detected_source_lang' = "undefined"
    /\ target_language' = "undefined"
    /\ pc' = "upload"
    /\ UNCHANGED <<prog, files, messages>>

Extractor(type) ==
    CASE type = PdfType -> "pdf" [] type = DocxType -> "docx" [] type = TxtType -> "txt"
      [] startswith(type, "image") -> "image" [] startswith(type, "video") -> "video"
      [] OTHER -> "unsupported"

\* lines 193-210: the file uploader and extraction
ProcessUpload ==
    /\ prog = "app"
    /\ pc = "upload"
    /\ \/ /\ uploaded_file' = NoFile
          /\ UNCHANGED <<source_text, stages, files, call>>
       \/ \E type \in FileTypes : \E content \in FileContents(type) :
            LET r == extract_text_from_file(type, content) IN
            /\ uploaded_file' = UploadedFile(type)
            /\ stages' = stages \cup {"extract"}
            /\ files' = (files \cup r.created) \ r.removed
            /\ call' = [call EXCEPT !.extractor = Extractor(type),
                                    !.signal = IF r.raised
                                               THEN <<Error("Error uploading file")>>
                                               ELSE r.shown,
                                    !.ret = IF r.raised THEN None ELSE r.ret,
                                    !.asr = IF startswith(type, "video")
                                               /\ Head(content) = "recognize"
                                            THEN @ \cup {"video"} ELSE @]
            /\ source_text' = IF ~r.raised /\ Truthy(r.ret) THEN r.ret ELSE source_text
    /\ pc' = "detect"
    /\ UNCHANGED <<prog, result, raised, apiCalls, objectVars, reruns, messages,
                   detected_source_lang, target_language, translated_text, shown>>

\* lines 212-216: the detected language written under the input; the name it
\* computes is used only in labels
DetectDisplay ==
    /\ prog = "app"
    /\ pc = "detect"
    /\ stages' = IF source_text # <<>> THEN stages \cup {"detect"} ELSE stages
    /\ pc' = "live"
    /\ UNCHANGED <<prog, call, result, raised, apiCalls, files, objectVars, reruns, messages,
                   source_text, uploaded_file, detected_source_lang, target_language,
                   translated_text, shown>>

\* line 230: if detected_source_lang != target_lang_code
NeedsTranslationAlways(detected, target_lang_code) == TRUE

NeedsTranslation(detected, target_lang_code) == detected # target_lang_code

Message(original, translation, src, target_language_) ==
    [original |-> original, translation |-> translation,
     source_language |-> LANGUAGE_CODES_get(src), target_language |-> target_language_]

\* lines 218-284: target selection and live translation
LiveTranslation ==
    /\ prog = "app"
    /\ pc = "live"
    /\ \E target \in Selectable :
        /\ target_language' = target
        /\ IF source_text = <<>>
           THEN UNCHANGED <<detected_source_lang, translated_text, apiCalls, stages, shown,
                            history, added, messages, result, raised, call>>
           ELSE \E detected \in DetectorOutcomes, response \in Texts \cup {Raise} :
                LET src == detect_language(detected)
                    target_lang_code == LANGUAGES[target]
                    t == translate(source_text, target_lang_code, response)
                    rec == HistoryRecord(source_text, src, target_lang_code, t.ret)
                    f == create_translated_file(t.ret, uploaded_file.type)
                    offered == uploaded_file # NoFile /\ ~f.raised /\ f.ret # NoBuffer
                IN
                /\ detected_source_lang' = src
                /\ IF NeedsTranslation(src, target_lang_code)
                   THEN /\ translated_text' = t.ret
                        /\ apiCalls' = t.calls
                        /\ call' = [call EXCEPT !.failed = (response = Raise)]
                        /\ IF Truthy(t.ret)
                           THEN /\ history' = add_to_history(history, "DefaultChat", rec)
                                /\ added' = Append(added, [chat |-> "DefaultChat", rec |-> rec])
                                /\ messages' = Append(messages, Message(source_text, t.ret, src, target))
                                /\ stages' = stages \cup {"detect", "translate", "history"}
                                        \cup (IF uploaded_file # NoFile THEN {"rebuild"} ELSE {})
                                /\ shown' = shown \o <<Show("translated", t.ret)>>
                                        \o (IF uploaded_file # NoFile THEN f.shown ELSE <<>>)
                                        \o (IF offered THEN <<Show("download", uploaded_file.name)>>
                                            ELSE <<>>)
                                /\ result' = IF offered
                                             THEN [file_name |-> <<"translated_">> \o uploaded_file.name,
                                                   mime |-> uploaded_file.type, data |-> f.ret]
                                             ELSE NoDownload
                                /\ raised' = IF uploaded_file # NoFile /\ f.raised
                                             THEN "create_translated_file" ELSE "none"
                           ELSE /\ stages' = stages \cup {"detect", "translate"}
                                /\ UNCHANGED <<history, added, messages, shown, result, raised>>
                   ELSE /\ stages' = stages \cup {"detect"}
                        /\ shown' = shown \o <<Show("original", source_text)>>
                        /\ UNCHANGED <<translated_text, apiCalls, history, added, messages,
                                       result, raised, call>>
    /\ pc' = "idle"
    /\ UNCHANGED <<prog, files, reruns, source_text, uploaded_file>>

(***************************************************************************)
(* The specification.                                                      *)
(***************************************************************************)
Programs == {"translator", "app", "pdf", "image", "video", "speech"}

Init ==
    /\ prog \in Programs
    /\ pc = "idle"
    /\ call = [op |-> "none", failed |-> FALSE]
    /\ result = None
    /\ raised = "none"
    /\ apiCalls = <<>>
    /\ files = {}
    /\ history = EmptyHistory
    /\ added = <<>>
    /\ reruns = 0
    /\ messages = <<>>
    /\ source_text = <<>>
    /\ uploaded_file = NoFile
    /\ detected_source_lang = "undefined"
    /\ target_language = "undefined"
    /\ translated_text = None
    /\ stages = {}
    /\ shown = <<>>

Next ==
    \/ DetectLanguage
    \/ Translate
    \/ AddToHistory
    \/ ShowHistory
    \/ TranslateText
    \/ ExtractText
    \/ ReplaceDocumentContent
    \/ TranslateDocument
    \/ ProcessHandwrittenImage
    \/ VideoToTranslate
    \/ SpeechTranslateText
    \/ RecordAndTranslate
    \/ RunWidgets
    \/ ProcessUpload
    \/ DetectDisplay
    \/ LiveTranslation

Spec == Init /\ [][Next]_vars

(***************************************************************************)
(* Properties.                                                             *)
(***************************************************************************)
\* a front-end script run has reached its end
RunDone == prog = "app" /\ pc = "idle" /\ reruns > 0

\* C1: in the front-end, for every non-empty source text and every target
\* language, translate is invoked exactly when the detected code differs from
\* the target code; when they are equal no request is sent, no history record
\* is added and the original text is displayed unchanged.
C1_TranslateIffLanguagesDiffer ==
    (RunDone /\ source_text # <<>>) =>
        LET same == detected_source_lang = LANGUAGES[target_language] IN
        /\ ("translate" \in stages) <=> ~same
        /\ (apiCalls # <<>>) <=> ~same
        /\ ~same => apiCalls = <<TranslatePrompt(source_text, LANGUAGES[target_language])>>
        /\ same => /\ added = <<>>
                   /\ history = EmptyHistory
                   /\ "history" \notin stages
                   /\ translated_text = None
                   /\ shown = <<Show("original", source_text)>>

C1_Witness ==
    /\ RunDone
    /\ source_text = <<" ", "a">>
    /\ detected_source_lang = "es"
    /\ target_language = "Spanish"
    /\ apiCalls = <<>>
    /\ shown = <<Show("original", source_text)>>

\* ceil(n / d), by its defining inequalities
CeilDiv(n, d) == CHOOSE q \in 0..n : q * d >= n /\ (q - 1) * d < n

\* the k-th of the contiguous ChunkSize-character pieces of a text of length n
Piece(k, n) == [lo |-> (k - 1) * ChunkSize, hi |-> Min(k * ChunkSize, n)]

\* the answers to pieces 1..k of a text of length n, a single space between
\* consecutive answers
RECURSIVE SpaceJoined(_, _, _)
SpaceJoined(outcomes, k, n) ==
    IF k = 0 THEN <<>>
    ELSE IF k = 1 THEN ResponseText(Piece(1, n), outcomes[1])
    ELSE SpaceJoined(outcomes, k - 1, n) \o <<Space>> \o ResponseText(Piece(k, n), outcomes[k])

LongInput == prog = "pdf" /\ call.op = "translate_text" /\ len(call.text) > ChunkSize

\* C2 as claimed: for every input of length N > 10000, translate_text issues
\* exactly ceil(N/10000) calls, one per contiguous 10000-character chunk in
\* order, and returns the per-chunk results joined by single spaces.
C2_AlwaysAllChunks ==
    LongInput =>
        LET n == len(call.text) IN
        /\ Len(apiCalls) = CeilDiv(n, ChunkSize)
        /\ \A k \in 1..Len(apiCalls) : apiCalls[k] = ChunkPrompt(Piece(k, n), call.target)
        /\ result = SpaceJoined(call.outcomes, Len(apiCalls), n)

\* C2, amended: for every input of length N > 10000 the calls made carry the
\* contiguous 10000-character chunks in original order, one per call; when no
\* call fails there are exactly ceil(N/10000) calls and the result is the
\* per-chunk results joined by single spaces; when a call fails it is the
\* last call made and the result is None.
C2_ChunksWhenNoCallFails ==
    LongInput =>
        LET n == len(call.text) IN
        /\ Len(apiCalls) <= CeilDiv(n, ChunkSize)
        /\ \A k \in 1..Len(apiCalls) : apiCalls[k] = ChunkPrompt(Piece(k, n), call.target)
        /\ \A k \in 1..(Len(apiCalls) - 1) : call.outcomes[k] # "raise"
        /\ ~call.failed =>
              /\ Len(apiCalls) = CeilDiv(n, ChunkSize)
              /\ result = SpaceJoined(call.outcomes, Len(apiCalls), n)
        /\ call.failed => result = NoResult

C2_Witness ==
    /\ LongInput
    /\ len(call.text) = 2 * ChunkSize + 1
    /\ Len(apiCalls) = 3
    /\ apiCalls[3].text = [lo |-> 2 * ChunkSize, hi |-> 2 * ChunkSize + 1]
    /\ ~call.failed
    /\ result = <<Translated(Piece(1, 2 * ChunkSize + 1)), Space,
                  Translated(Piece(2, 2 * ChunkSize + 1)), Space,
                  Translated(Piece(3, 2 * ChunkSize + 1))>>

ShortInput == prog = "pdf" /\ call.op = "translate_text" /\ len(call.text) <= ChunkSize

\* C3 as claimed: for every input of length at most 10000, length 0 included,
\* exactly one call is issued, with the instruction template used for chunks.
C3_OneCallSameTemplate ==
    ShortInput =>
        /\ Len(apiCalls) = 1
        /\ apiCalls[1].template = ChunkTemplate

\* C3, amended: for every non-empty input of length at most 10000
\* translate_text issues exactly one call, carrying the whole text under the
\* whole-text template, which is not the template used for chunks; for the
\* empty input it issues no call and returns None.  GeminiTranslator.translate
\* issues exactly one call whatever the length.
C3_OneCallWholeTemplate ==
    /\ (ShortInput /\ len(call.text) > 0) =>
          /\ apiCalls = <<WholePrompt(call.text, call.target)>>
          /\ apiCalls[1].template = WholeTemplate
          /\ WholeTemplate # ChunkTemplate
    /\ (ShortInput /\ len(call.text) = 0) => (apiCalls = <<>> /\ result = NoResult)
    /\ (prog = "translator" /\ call.op = "translate") =>
          apiCalls = <<TranslatePrompt(call.text, call.target)>>

C3_Witness ==
    /\ ShortInput
    /\ len(call.text) = ChunkSize
    /\ apiCalls = <<WholePrompt(DocText(ChunkSize), "Spanish")>>
    /\ result = <<Translated(DocText(ChunkSize))>>

\* C4 as claimed: in every pipeline, an error raised by the remote
\* translation call is caught and returned as a value; the translate step
\* never lets the exception reach its caller.
C4_TranslationErrorsCaught ==
    call.failed => raised = "none"

\* C5: detect_language never raises and always returns a value of LANGUAGES:
\* the detector's code when that is a supported code, "en" when the detector
\* raises or answers a code outside the supported set.
C5_DetectReturnsSupported ==
    /\ (prog = "translator" /\ call.op = "detect_language") =>
          /\ raised = "none"
          /\ result \in LanguageValues
          /\ result = IF call.detected \in LanguageValues THEN call.detected ELSE "en"
    /\ (RunDone /\ source_text # <<>>) => detected_source_lang \in LanguageValues

C5_Witness ==
    /\ prog = "translator"
    /\ call.op = "detect_language"
    /\ call.detected = "zh-cn"
    /\ result = "en"

\* C6 as claimed: every temporary file created while processing a request
\* has been deleted by the time the operation returns, on success and on
\* failure.
C6_TempFilesDeleted ==
    files = {}

\* C7 as claimed: a record is added to the history only after a successful
\* translation; a run whose remote translation call failed adds none.
C7_NoRecordOnFailure ==
    (RunDone /\ call.failed) => (added = <<>> /\ "history" \notin stages)

C9_UnsupportedHalts ==
    (prog = "app" /\ call.op = "script_run" /\ call.extractor = "unsupported") =>
        /\ call.signal = <<Error("Unsupported file type")>>
        /\ raised = "none"
        /\ stages \subseteq {"extract"}

\* C10 as claimed: when OCR returns only whitespace, extraction ends in the
\* no-text-found outcome and translate is never invoked, in the front-end
\* image path and in the handwriting pipeline.
C10_NoTextHalts ==
    /\ (prog = "app" /\ call.op = "script_run" /\ call.extractor = "image"
          /\ call.signal = <<Error("No text found in the image.")>>) =>
              "translate" \notin stages
    /\ (prog = "image" /\ call.op = "process_handwritten_image" /\ call.failAt = "none"
          /\ strip(call.ocr[1]) = <<>> /\ strip(call.ocr[2]) = <<>>) =>
              apiCalls = <<>>

\* the elements of a sequence
Range(seq) == {seq[i] : i \in 1..Len(seq)}

\* C11: for PDF, DOCX and TXT, extracting an empty sample ends in a failure
\* with an error reported, and no extraction returns success carrying the
\* empty text, in the file pipeline (extract_text) and in the front-end
\* (extract_text_from_file) alike.
C11_EmptyExtractionFails ==
    /\ call.op = "extract_text" =>
        /\ result.type # "None" => result.text # <<>>
        /\ result.type = "None" => call.printed # <<>>
    /\ (prog = "app" /\ call.op = "script_run" /\ call.extractor \in {"pdf", "docx", "txt"}) =>
        /\ call.ret # <<>>
        /\ call.ret = None => call.signal # <<>>

\* a DOCX extraction that succeeded
DocxExtracted == call.op = "extract_text" /\ result.type = "docx"

\* C12: after a DOCX extraction the style records are as many as the kept
\* (non-empty) paragraphs and as many as the lines of the returned text split
\* on newline, record i describing line i.
C12_StylesMatchLines ==
    DocxExtracted =>
        LET kept == Kept(call.content.paragraphs)
            lines == split(result.text, "\n")
        IN  /\ Len(result.styles) = Len(kept)
            /\ Len(result.styles) = Len(lines)
            /\ \A i \in 1..Len(result.styles) :
                result.styles[i] = StyleRecord(kept[i]) /\ lines[i] = kept[i].text

\* a DOCX reconstruction that saved its document
DocxRebuilt ==
    /\ call.op = "replace_document_content"
    /\ call.original_metadata.type = "docx"
    /\ result.ret

\* C13, as stated: j lines and k style records give exactly j paragraphs in
\* line order, every paragraph i < min(j, k) carrying the alignment, font name
\* and font size of record i, every paragraph i >= k having default styling.
C13_EveryParagraphCarriesStyle ==
    DocxRebuilt =>
        LET lines == split(call.translated_text, "\n")
            styles == call.original_metadata.styles
            ps == result.written.paragraphs
        IN  /\ Len(ps) = Len(lines)
            /\ \A i \in 1..Len(ps) :
                /\ ps[i].text = lines[i]
                /\ i <= Len(styles) =>
                    /\ ps[i].alignment = styles[i].alignment
                    /\ FontName(ps[i]) = styles[i].font_name
                    /\ FontSize(ps[i]) = styles[i].font_size
                /\ i > Len(styles) => ps[i] = add_paragraph(lines[i])

\* C13, amended: j lines and k style records give exactly j paragraphs in line
\* order; every paragraph i < min(j, k) carries the alignment of record i and,
\* when its line is not empty, the font name and font size of record i on its
\* run; a paragraph of an empty line has no run and so no font; every
\* paragraph i >= k has default styling.
C13_NonEmptyParagraphsCarryStyle ==
    DocxRebuilt =>
        LET lines == split(call.translated_text, "\n")
            styles == call.original_metadata.styles
            ps == result.written.paragraphs
        IN  /\ Len(ps) = Len(lines)
            /\ \A i \in 1..Len(ps) :
                /\ ps[i].text = lines[i]
                /\ i <= Len(styles) =>
                    /\ ps[i].alignment = styles[i].alignment
                    /\ lines[i] # <<>> =>
                        /\ FontName(ps[i]) = styles[i].font_name
                        /\ FontSize(ps[i]) = styles[i].font_size
                    /\ lines[i] = <<>> => ps[i].runs = <<>>
                /\ i > Len(styles) => ps[i] = add_paragraph(lines[i])

\* three lines, the second one empty, rebuilt with two style records of which
\* the second names a font
C13_Witness ==
    /\ DocxRebuilt
    /\ call.translated_text = <<"a", "\n", "\n", "b">>
    /\ Len(call.original_metadata.styles) = 2
    /\ call.original_metadata.styles[1].alignment = "CENTER"
    /\ call.original_metadata.styles[2].font_name = "Arial"
    /\ Len(result.written.paragraphs) = 3

\* C14: in every pipeline that runs speech recognition (the voice loop, the
\* video translator, the front-end's microphone and video upload), audio that
\* is not recognised or a failed recognition request yields an empty or absent
\* transcript as a value; the error does not leave the pipeline.
C14_RecognitionFailureIsAValue ==
    /\ (call.op = "video_to_translate" /\ call.failAt = "recognize") => raised = "none"
    /\ (call.op = "record_and_translate" /\ call.heard \in RecognitionErrors
            /\ call.transcript # None) =>
        call.transcript = <<>> /\ raised = "none"
    /\ (prog = "app" /\ call.op = "script_run") =>
        /\ ("microphone" \in call.asr /\ pc = "upload") =>
            raised = "none" /\ source_text \in TypedTexts
        /\ "video" \in call.asr => call.ret = None /\ call.signal = <<>>

\* the declared types the specification lists as supported
SupportedUpload(type) ==
    \/ type \in {TxtType, PdfType, DocxType}
    \/ startswith(type, "image") \/ startswith(type, "video") \/ startswith(type, "audio")

\* C15: every upload whose declared type is text/plain, application/pdf, the
\* DOCX type, image/*, video/* or audio/* is dispatched to an extractor of
\* that kind, and only the other types produce the unsupported outcome.
C15_SupportedTypesDispatched ==
    (prog = "app" /\ call.op = "script_run" /\ uploaded_file # NoFile) =>
        /\ call.extractor = "unsupported" <=> ~SupportedUpload(uploaded_file.type)
        /\ call.extractor = "unsupported" =>
            call.signal = <<Error("Unsupported file type")>>

\* C16: for an uploaded PDF, DOCX or TXT whose translation produced text,
\* create_translated_file returns a buffer without raising and the download
\* carries the file name "translated_" + the upload's name and the upload's
\* type; for any other type it returns the unsupported outcome and no
\* download is offered.
C16_RebuildableTypesOfferDownload ==
    (RunDone /\ "rebuild" \in stages) =>
        IF uploaded_file.type \in {PdfType, DocxType, TxtType}
        THEN /\ raised = "none"
             /\ result.data.kind # "none"
             /\ result.file_name = <<"translated_">> \o uploaded_file.name
             /\ result.mime = uploaded_file.type
        ELSE /\ raised = "none"
             /\ result.data.kind = "none"
             /\ result.file_name = <<>>

\* C17: for every accepted input path (.pdf, .docx, .txt, .text in any
\* letter case), replace_document_content writes to a path other than the
\* input path.
C17_OutputPathDiffers ==
    (call.op = "replace_document_content" /\ result.written.output_file # <<>>) =>
        result.written.output_file # call.input_file

\* a PDF extraction of a file that exists
PdfExtraction ==
    /\ call.op = "extract_text"
    /\ call.exists
    /\ lower(splitext(call.file_path)) = ".pdf"

\* C18: PDF extraction tries the primary extractor first; the page-by-page
\* reader runs only if the primary raised; if both raise the result is
\* failure; and a produced text that is empty or only whitespace is reported
\* as failure, never returned as a successful extraction.
C18_PdfFallbackAndEmptiness ==
    PdfExtraction =>
        LET primary == call.content.primary
            fallback == call.content.fallback
            produced == IF primary # Raise THEN primary ELSE PagesText(fallback.pages)
        IN  /\ call.tried[1] = "extract_pdf_text"
            /\ ("PdfReader" \in Range(call.tried)) <=> (primary = Raise)
            /\ IF primary = Raise /\ fallback.raises
               THEN result.type = "None" /\ call.printed # <<>>
               ELSE IF produced = <<>> \/ strip(produced) = <<>>
               THEN result.type = "None" /\ call.printed # <<>>
               ELSE result = [text |-> produced, type |-> "pdf"]

\* the primary extractor raised and the fallback read one page without text
C18_Witness ==
    /\ PdfExtraction
    /\ call.content.primary = Raise
    /\ ~call.content.fallback.raises
    /\ call.content.fallback.pages = <<<<>>>>
    /\ call.tried = <<"extract_pdf_text", "PdfReader">>
    /\ result.type = "None"

\* C19: in the voice loop, a pass in which speech_to_text returns the empty
\* string performs no translation and no playback and goes back to recording;
\* translation and playback happen only in a pass whose transcript is not
\* empty.
C19_EmptyTranscriptSkips ==
    call.op = "record_and_translate" =>
        /\ call.transcript = <<>> =>
            apiCalls = <<>> /\ call.spoken = <<>> /\ result = None /\ pc = "record"
        /\ (apiCalls # <<>> \/ call.spoken # <<>>) => Truthy(call.transcript)

\* nothing was recognised in a pass that was not interrupted
C19_Witness ==
    /\ call.op = "record_and_translate"
    /\ call.heard = <<"UnknownValueError">>
    /\ call.transcript = <<>>
    /\ apiCalls = <<>>
    /\ pc = "record"

\* chunks a text of this extent is cut into
ChunkCount(text) ==
    IF len(text) = 0 THEN 0
    ELSE IF len(text) > ChunkSize THEN CeilDiv(len(text), ChunkSize) ELSE 1

\* C20: within one translate_text call every chunk is sent at most once; at
\* the first chunk whose call fails no later chunk is sent, the translations
\* already obtained are dropped and the call returns None.
C20_NoRetry ==
    (prog = "pdf" /\ call.op = "translate_text") =>
        /\ Len(apiCalls) <= ChunkCount(call.text)
        /\ \A i, j \in 1..Len(apiCalls) : i # j => apiCalls[i].text # apiCalls[j].text
        /\ \A k \in 1..(Len(apiCalls) - 1) : call.outcomes[k] # "raise"
        /\ call.failed <=> (apiCalls # <<>> /\ call.outcomes[Len(apiCalls)] = "raise")
        /\ call.failed => result = NoResult

\* the second of three chunks failed: two calls, the third chunk never sent
C20_Witness ==
    /\ prog = "pdf"
    /\ call.op = "translate_text"
    /\ ChunkCount(call.text) = 3
    /\ call.outcomes = <<"ok", "raise">>
    /\ Len(apiCalls) = 2
    /\ result = NoResult

\* C21: translate_document runs extract, translate, rebuild in this order and
\* halts at the first stage that fails: after a failed extraction no request
\* is sent to the translation service; after a failed translation (None or
\* the empty string) no output file is written; it returns True only if all
\* three stages succeeded and an output file was written.
C21_StagesInOrderHaltAtFailure ==
    call.op = "translate_document" =>
        LET extracted == call.document_data.type # "None"
            translated == call.translated # NoResult /\ call.translated # <<>>
        IN  /\ call.stages \in {<<"extract">>, <<"extract", "translate">>,
                                <<"extract", "translate", "rebuild">>}
            /\ ~extracted =>
                /\ call.stages = <<"extract">>
                /\ apiCalls = <<>>
                /\ ~result.ret /\ result.written = NoOutput
            /\ extracted =>
                /\ Len(call.stages) >= 2
                /\ apiCalls = <<WholePrompt(DocText(Len(call.document_data.text)), "Spanish")>>
            /\ (extracted /\ ~translated) =>
                /\ call.stages = <<"extract", "translate">>
                /\ ~result.ret /\ result.written = NoOutput
            /\ (extracted /\ translated) => Len(call.stages) = 3
            /\ result.ret =>
                /\ extracted /\ translated
                /\ call.stages = <<"extract", "translate", "rebuild">>
                /\ result.written.output_file # <<>>

\* a DOCX document went through the three stages and its output was saved
C21_Witness ==
    /\ call.op = "translate_document"
    /\ call.document_data.type = "docx"
    /\ call.stages = <<"extract", "translate", "rebuild">>
    /\ Len(apiCalls) = 1
    /\ result.ret
    /\ result.written.kind = "docx"

\* the sessions other than chat_name are the same, with the same sequences,
\* in stores h and g
OthersUnchanged(h, g, chat_name) ==
    /\ DOMAIN g \ {chat_name} = DOMAIN h \ {chat_name}
    /\ \A c \in DOMAIN h \ {chat_name} : g[c] = h[c]

\* C22: only add_to_history changes the history store of a GeminiTranslator,
\* and only the sequence of the session it is given: every other session's
\* sequence stays as it was; detect_language, translate and show_history
\* leave the whole store as it was, and show_history of an unknown session
\* returns the empty sequence without creating the session.  In the
\* front-end, where each script run builds a new GeminiTranslator, the store
\* of the run's object changes only by an add to "DefaultChat".
C22_OnlyAddChangesGivenSession ==
    [][/\ prog = "translator" =>
            /\ history' # history => call'.op = "add_to_history"
            /\ call'.op \in {"detect_language", "translate", "show_history"} =>
                history' = history
            /\ call'.op = "add_to_history" =>
                /\ OthersUnchanged(history, history', call'.chat)
                /\ call'.chat \in DOMAIN history'
            /\ (call'.op = "show_history" /\ call'.chat \notin DOMAIN history) =>
                result' = <<>> /\ call'.chat \notin DOMAIN history'
       /\ (prog = "app" /\ pc # "idle" /\ history' # history) =>
            /\ pc = "live"
            /\ OthersUnchanged(history, history', "DefaultChat")
            /\ Len(show_history(history', "DefaultChat"))
                    = Len(show_history(history, "DefaultChat")) + 1
      ]_vars

\* a record was added to one session after one was added to the other, whose
\* sequence is still that one record
C22_Witness ==
    /\ prog = "translator"
    /\ call.op = "add_to_history"
    /\ Len(added) = 2
    /\ added[1].chat # added[2].chat
    /\ call.chat = added[2].chat
    /\ DOMAIN history = ChatNames
    /\ history[added[1].chat] = <<added[1].rec>>
    /\ history[added[2].chat] = <<added[2].rec>>

====
